---- MODULE Spec2Model ----
(***************************************************************************)
(* Taxonomic hierarchy aggregation and expand/collapse state machine of    *)
(* the GBIF visualisation.  Three variants of the script exist in the      *)
(* repository:                                                             *)
(*   "log"    the seven-level bar tree with logarithmic widths, the        *)
(*            recorded parent total and the "Other species" residual,      *)
(*   "linear" the seven-level bar tree with linear widths,                 *)
(*   "detail" the kingdom/phylum view with species and country panels.     *)
(* A name is a sequence of text fragments, so that String.startsWith is a  *)
(* prefix test; the empty sequence stands for null/undefined/"" (all of    *)
(* them falsy in JavaScript).  A row of a table is a record                *)
(*   [name, parent, occurrence_count, individual_count]                    *)
(* where name is d[level] and parent is d[previous level].                 *)
(***************************************************************************)
EXTENDS Integers, Sequences, FiniteSets, TLC

VARIABLES
    phase,          \* "start" before window.onload ran init, then "ready",
                    \* or "error" when init ended in its catch
    variant,        \* which script runs: "log", "linear" or "detail"
    loaded,         \* the tables as d3.csv delivered them (history)
    taxonomyData,   \* level -> sequence of rows (the global taxonomyData)
    expandedNodes,  \* the Map "level:name" -> occurrence count
    rendered,       \* the rows drawn by the last createVisualization
    last,           \* the last operation: its arguments, pre-state, result
    calls,          \* number of direct calls made so far
    svg,            \* TRUE once init has built the SVG (the global svg is set)
    messages,       \* the error messages init has appended to the page
    commonNames,    \* the lookup of common names (the global commonNames)
    termColors,     \* term -> index into colorScheme (the Map termColors)
    currentColorIndex   \* the index of the next colour to hand out

vars == <<phase, variant, loaded, taxonomyData, expandedNodes, rendered, last, calls,
          svg, messages, commonNames, termColors, currentColorIndex>>

colorVars == <<termColors, currentColorIndex>>

----------------------------------------------------------------------------
(* Bounds of the model *)

MaxCount == 2        \* occurrence counts of drawn table rows are 0..MaxCount
MaxRows == 2         \* rows of a drawn table
MaxCallCount == 1    \* count argument of a direct toggleExpansion call
MaxDirectCalls == 1  \* direct calls per behaviour

----------------------------------------------------------------------------
(* Names and levels *)

nA == <<"a">>
nAB == <<"a", "b">>
nB == <<"b">>
OtherSpecies == <<"Other", " species">>
Other == <<"Other">>
NoName == <<>>
Absent == -1    \* a numeric field the row object does not carry

Names == {nA, nAB, nB}

TAXONOMY_LEVELS ==
    <<"kingdom", "phylum", "class", "order", "family", "genus", "species">>

Levels == {TAXONOMY_LEVELS[i] : i \in 1..Len(TAXONOMY_LEVELS)}
UnknownLevels == {"tribe"}
NullLevel == "null"

\* JavaScript truthiness of a name and of a number
TruthyName(n) == n # NoName
TruthyNum(c) == c # 0 /\ c # Absent

\* TAXONOMY_LEVELS.indexOf(level), zero-based, -1 when absent
indexOf(level) ==
    IF level \in Levels
    THEN (CHOOSE i \in 1..Len(TAXONOMY_LEVELS) : TAXONOMY_LEVELS[i] = level) - 1
    ELSE -1

getNextLevel(level) ==
    LET index == indexOf(level)
    IN  IF index < Len(TAXONOMY_LEVELS) - 1 THEN TAXONOMY_LEVELS[index + 2] ELSE NullLevel

getPreviousLevel(level) ==
    LET index == indexOf(level)
    IN  IF index > 0 THEN TAXONOMY_LEVELS[index] ELSE NullLevel

IsPrefix(p, s) == Len(p) <= Len(s) /\ SubSeq(s, 1, Len(p)) = p

\* A key `${level}:${name}` is the pair <<level, name>>: no level holds a ':'
Key(level, name) == <<level, name>>

\* existingKey.startsWith(`${level}:${name}`)
keyStartsWith(existingKey, level, name) ==
    existingKey[1] = level /\ IsPrefix(name, existingKey[2])

----------------------------------------------------------------------------
(* Expansion state *)

\* expandedNodes.get(key), as a condition
isExpanded(expanded, level, name) ==
    /\ Key(level, name) \in DOMAIN expanded
    /\ TruthyNum(expanded[Key(level, name)])

Restrict(f, S) == [k \in S |-> f[k]]

MutantToggleKeepLevel(expanded, level, name, occurrenceCount) ==
    LET key == Key(level, name)
    IN  IF isExpanded(expanded, level, name)
        THEN Restrict(expanded, {k \in DOMAIN expanded :
                 ~(keyStartsWith(k, level, name) \/ indexOf(k[1]) > indexOf(level))})
        ELSE LET kept == {k \in DOMAIN expanded : ~(indexOf(k[1]) > indexOf(level))}
             IN  [k \in kept \cup {key} |->
                     IF k = key THEN occurrenceCount ELSE expanded[k]]

MutantToggleClearAll(expanded, level, name, occurrenceCount) ==
    LET key == Key(level, name)
    IN  IF isExpanded(expanded, level, name)
        THEN Restrict(expanded, {k \in DOMAIN expanded :
                 ~(keyStartsWith(k, level, name) \/ indexOf(k[1]) > indexOf(level))})
        ELSE [k \in {key} |-> occurrenceCount]

MutantToggleRewriteCounts(expanded, level, name, occurrenceCount) ==
    LET key == Key(level, name)
    IN  IF isExpanded(expanded, level, name)
        THEN Restrict(expanded, {k \in DOMAIN expanded :
                 ~(keyStartsWith(k, level, name) \/ indexOf(k[1]) > indexOf(level))})
        ELSE LET kept == {k \in DOMAIN expanded : ~(indexOf(k[1]) >= indexOf(level))}
             IN  [k \in kept \cup {key} |-> occurrenceCount]

\* The Map after toggleExpansion(level, name, occurrenceCount)
toggleExpansion(expanded, level, name, occurrenceCount) ==
    LET key == Key(level, name)
    IN  IF isExpanded(expanded, level, name)
        THEN Restrict(expanded, {k \in DOMAIN expanded :
                 ~(keyStartsWith(k, level, name) \/ indexOf(k[1]) > indexOf(level))})
        ELSE LET kept == {k \in DOMAIN expanded : ~(indexOf(k[1]) >= indexOf(level))}
             IN  [k \in kept \cup {key} |->
                     IF k = key THEN occurrenceCount ELSE expanded[k]]

toggleBranch(expanded, level, name) ==
    IF isExpanded(expanded, level, name) THEN "collapse" ELSE "expand"

----------------------------------------------------------------------------
(* Tables *)

Row(name, parent, oc, ic) ==
    [name |-> name, parent |-> parent, occurrence_count |-> oc, individual_count |-> ic]

EmptyTables == [l \in Levels |-> <<>>]

\* d3.sum(rows, d => +d.occurrence_count)
RECURSIVE sumOccurrences(_)
sumOccurrences(rows) ==
    IF rows = <<>> THEN 0
    ELSE rows[1].occurrence_count + sumOccurrences(Tail(rows))

\* d3.sum(rows, d => +(d.individual_count || 0))
RECURSIVE sumIndividuals(_)
sumIndividuals(rows) ==
    IF rows = <<>> THEN 0
    ELSE (IF TruthyNum(rows[1].individual_count) THEN rows[1].individual_count ELSE 0)
         + sumIndividuals(Tail(rows))

\* One step of a stable sort with the comparator (a, b) => +b.count - +a.count:
\* r goes behind every row whose count is at least its own.
insertByCount(sorted, r) ==
    LET k == Cardinality({i \in 1..Len(sorted) :
                 sorted[i].occurrence_count >= r.occurrence_count})
    IN  SubSeq(sorted, 1, k) \o <<r>> \o SubSeq(sorted, k + 1, Len(sorted))

MutantSortNone(rows) == rows

\* Array.prototype.sort((a, b) => +b.occurrence_count - +a.occurrence_count)
RECURSIVE sortByCountDesc(_)
sortByCountDesc(rows) ==
    IF rows = <<>> THEN <<>>
    ELSE insertByCount(sortByCountDesc(SubSeq(rows, 1, Len(rows) - 1)), rows[Len(rows)])

\* d[parentLevel]: undefined when parentLevel is null
parentField(d, parentLevel) == IF parentLevel = NullLevel THEN NoName ELSE d.parent

\* table.find(d => d[level] === name): the index of the first match, 0 if none
findIndex(table, name) ==
    IF \E i \in 1..Len(table) : table[i].name = name
    THEN CHOOSE i \in 1..Len(table) :
            /\ table[i].name = name
            /\ \A j \in 1..(i - 1) : table[j].name # name
    ELSE 0

MutantOtherSpeciesNoSubtract(data, parentLevel, parent, filteredData) ==
    LET p == findIndex(data[parentLevel], parent)
    IN  IF p = 0 THEN <<>>
        ELSE LET speciesSum == sumOccurrences(filteredData)
                 remainder == data[parentLevel][p].occurrence_count - speciesSum
             IN  IF remainder > 0
                 THEN <<Row(OtherSpecies, parent, data[parentLevel][p].occurrence_count, 0)>>
                 ELSE <<>>

\* The "Other species" rows pushed behind the species of `parent`
otherSpecies(data, parentLevel, parent, filteredData) ==
    LET p == findIndex(data[parentLevel], parent)
    IN  IF p = 0 THEN <<>>
        ELSE LET speciesSum == sumOccurrences(filteredData)
                 remainder == data[parentLevel][p].occurrence_count - speciesSum
             IN  IF remainder > 0
                 THEN <<Row(OtherSpecies, parent, remainder, 0)>>
                 ELSE <<>>

MutantFilterAllRows(data, level, parent) ==
    IF level \notin Levels
    THEN [status |-> "TypeError", rows |-> <<>>, data |-> data]
    ELSE [status |-> "ok", rows |-> sortByCountDesc(data[level]), data |-> data]

MutantFilterNoThrow(data, level, parent) ==
    IF level \notin Levels
    THEN [status |-> "ok", rows |-> <<>>, data |-> data]
    ELSE [status |-> "ok",
          rows |-> sortByCountDesc(SelectSeq(data[level],
                      LAMBDA d : parentField(d, getPreviousLevel(level)) = parent)),
          data |-> data]

\* filterTaxonomicData(level, parent) of the "log" variant: the rows returned
\* and the tables afterwards (the root call sorts the table in place); an
\* unknown level reads taxonomyData[level] as undefined and throws a TypeError.
filterTaxonomicData(data, level, parent) ==
    IF level \notin Levels
    THEN [status |-> "TypeError", rows |-> <<>>, data |-> data]
    ELSE IF ~TruthyName(parent)
    THEN LET sorted == sortByCountDesc(data[level])
         IN  [status |-> "ok", rows |-> sorted, data |-> [data EXCEPT ![level] = sorted]]
    ELSE LET parentLevel == getPreviousLevel(level)
             filteredData == sortByCountDesc(SelectSeq(data[level],
                                 LAMBDA d : parentField(d, parentLevel) = parent))
         IN  [status |-> "ok",
              rows |-> IF level = "species"
                       THEN filteredData \o otherSpecies(data, parentLevel, parent, filteredData)
                       ELSE filteredData,
              data |-> data]

\* filterTaxonomicData(level, parent) of the "linear" variant
filterTaxonomicDataLinear(data, level, parent) ==
    IF level \notin Levels
    THEN [status |-> "TypeError", rows |-> <<>>, data |-> data]
    ELSE IF ~TruthyName(parent)
    THEN LET sorted == sortByCountDesc(data[level])
         IN  [status |-> "ok", rows |-> sorted, data |-> [data EXCEPT ![level] = sorted]]
    ELSE LET parentLevel == getPreviousLevel(level)
         IN  [status |-> "ok",
              rows |-> sortByCountDesc(SelectSeq(data[level],
                          LAMBDA d : parentField(d, parentLevel) = parent)),
              data |-> data]

filterFor(v, data, level, parent) ==
    IF v = "linear" THEN filterTaxonomicDataLinear(data, level, parent)
    ELSE filterTaxonomicData(data, level, parent)

----------------------------------------------------------------------------
(* Rendering *)

MutantRowTotalsAlwaysSum(data, level, parent, rows) ==
    [occurrences |-> sumOccurrences(rows), individuals |-> sumIndividuals(rows)]

\* totalOccurrences and totalIndividuals of a row in the "log" variant: the
\* parent's record when it is found and its count is truthy, else the sums
rowTotals(data, level, parent, rows) ==
    LET parentLevel == getPreviousLevel(level)
        p == IF TruthyName(parent) THEN findIndex(data[parentLevel], parent) ELSE 0
        found == p # 0 /\ TruthyNum(data[parentLevel][p].occurrence_count)
    IN  IF found
        THEN [occurrences |-> data[parentLevel][p].occurrence_count,
              individuals |-> IF TruthyNum(data[parentLevel][p].individual_count)
                              THEN data[parentLevel][p].individual_count ELSE 0]
        ELSE [occurrences |-> sumOccurrences(rows), individuals |-> sumIndividuals(rows)]

\* the same of the "linear" variant: always the sums
rowTotalsLinear(rows) ==
    [occurrences |-> sumOccurrences(rows), individuals |-> sumIndividuals(rows)]

\* expandedNodes.get(`${getPreviousLevel(level)}:${parent}`), Absent if undefined
parentTotal(expanded, level, parent) ==
    LET key == Key(getPreviousLevel(level), parent)
    IN  IF TruthyName(parent) /\ key \in DOMAIN expanded THEN expanded[key] ELSE Absent

\* renderTaxonomicLevel(level, parent, depth): the rows drawn, the row of the
\* level first and then, in the order of its segments, the rows of the
\* expanded ones.  No row is drawn for an empty level.
RECURSIVE renderTaxonomicLevel(_, _, _, _, _, _)
RECURSIVE renderChildren(_, _, _, _, _, _, _)
MutantRenderAllChildren(v, data, expanded, level, rows, i, depth) ==
    IF i > Len(rows) THEN <<>>
    ELSE (IF getNextLevel(level) # NullLevel
          THEN renderTaxonomicLevel(v, data, expanded, getNextLevel(level),
                                    rows[i].name, depth + 1)
          ELSE <<>>)
         \o renderChildren(v, data, expanded, level, rows, i + 1, depth)

renderTaxonomicLevel(v, data, expanded, level, parent, depth) ==
    LET f == filterFor(v, data, level, parent)
        totals == IF v = "linear" THEN rowTotalsLinear(f.rows)
                  ELSE rowTotals(f.data, level, parent, f.rows)
    IN  IF f.rows = <<>> THEN <<>>
        ELSE <<[level |-> level, parent |-> parent, depth |-> depth, data |-> f.rows,
                totalOccurrences |-> totals.occurrences,
                totalIndividuals |-> totals.individuals,
                parentTotal |-> IF v = "linear" THEN Absent
                                ELSE parentTotal(expanded, level, parent)]>>
             \o renderChildren(v, f.data, expanded, level, f.rows, 1, depth)

renderChildren(v, data, expanded, level, rows, i, depth) ==
    IF i > Len(rows) THEN <<>>
    ELSE (IF isExpanded(expanded, level, rows[i].name) /\ getNextLevel(level) # NullLevel
          THEN renderTaxonomicLevel(v, data, expanded, getNextLevel(level),
                                    rows[i].name, depth + 1)
          ELSE <<>>)
         \o renderChildren(v, data, expanded, level, rows, i + 1, depth)

\* createVisualization(): the rows drawn and the tables afterwards
createVisualization(v, data, expanded) ==
    [rows |-> renderTaxonomicLevel(v, data, expanded, "kingdom", NoName, 0),
     data |-> filterFor(v, data, "kingdom", NoName).data]

\* The count a click on segment d of row r hands to toggleExpansion
clickCount(v, r, d) ==
    IF v = "linear" THEN d.occurrence_count ELSE r.totalOccurrences

----------------------------------------------------------------------------
(* The species panel of the "detail" variant *)

maxSpecies == 5

\* createSpeciesChart(phylum, yOffset): the bars drawn for the phylum record
createSpeciesChart(species, phylum) ==
    LET phylumSpecies == sortByCountDesc(SelectSeq(species,
                             LAMBDA s : s.parent = phylum.name))
        topSpecies == SubSeq(phylumSpecies, 1,
                             IF Len(phylumSpecies) < maxSpecies
                             THEN Len(phylumSpecies) ELSE maxSpecies)
        otherCount == phylum.occurrence_count - sumOccurrences(topSpecies)
    IN  topSpecies \o <<Row(Other, NoName, otherCount, Absent)>>

----------------------------------------------------------------------------
(* The state machine of the seven-level variants *)

EmptyMap == [k \in {} |-> 0]

\* colorScheme = d3.schemeTableau10: ten colours, named by their index
PaletteSize == 10

\* let termColors = new Map()
NoColors == [term \in {} |-> 0]

MutantGetTermColorNoWrap(colors, index, term) ==
    IF term \notin DOMAIN colors
    THEN [color |-> index,
          termColors |-> [t \in DOMAIN colors \cup {term} |->
                             IF t = term THEN index ELSE colors[t]],
          currentColorIndex |-> index + 1]
    ELSE [color |-> colors[term], termColors |-> colors, currentColorIndex |-> index]

\* getTermColor(term): the colour returned, and termColors and
\* currentColorIndex after the call
getTermColor(colors, index, term) ==
    IF term \notin DOMAIN colors
    THEN [color |-> index,
          termColors |-> [t \in DOMAIN colors \cup {term} |->
                             IF t = term THEN index ELSE colors[t]],
          currentColorIndex |-> (index + 1) % PaletteSize]
    ELSE [color |-> colors[term], termColors |-> colors, currentColorIndex |-> index]

\* The terms of the rows in the order their rectangles are filled:
\* .attr('fill', d => getTermColor(d[level])), row by row
RECURSIVE termsDrawn(_)
termsDrawn(rows) ==
    IF rows = <<>> THEN <<>>
    ELSE [i \in 1..Len(rows[1].data) |-> rows[1].data[i].name] \o termsDrawn(Tail(rows))

RECURSIVE paintTerms(_, _, _)
paintTerms(colors, index, terms) ==
    IF terms = <<>> THEN [termColors |-> colors, currentColorIndex |-> index]
    ELSE LET g == getTermColor(colors, index, terms[1])
         IN  paintTerms(g.termColors, g.currentColorIndex, Tail(terms))

\* the colour cache after the rows have been drawn
paint(rows) ==
    \E p \in {paintTerms(termColors, currentColorIndex, termsDrawn(rows))} :
        /\ termColors' = p.termColors
        /\ currentColorIndex' = p.currentColorIndex

\* No entry in any table of common names (let commonNames = {})
NoCommonNames == [t \in {"all", "phyla", "species"} |-> [n \in {} |-> <<>>]]

NoResult == [status |-> "", rows |-> <<>>]

NoCall ==
    [op |-> "none", level |-> NullLevel, name |-> NoName, count |-> 0,
     branch |-> "", had |-> FALSE, removed |-> {}, prevData |-> EmptyTables,
     result |-> NoResult, text |-> NoName]

\* Two lineages below kingdom "ab", down to the species; the kingdom file is
\* not in descending order.
DataTwoLineages ==
    [kingdom |-> <<Row(nA, NoName, 2, 0), Row(nAB, NoName, 5, 7)>>,
     phylum  |-> <<Row(nA, nAB, 3, 1), Row(nB, nAB, 2, 0), Row(nAB, nA, 2, 1)>>,
     class   |-> <<Row(nA, nA, 3, 1), Row(nB, nB, 2, 1)>>,
     order   |-> <<Row(nA, nA, 3, 1), Row(nB, nB, 2, 1)>>,
     family  |-> <<Row(nA, nA, 3, 1), Row(nB, nB, 2, 1)>>,
     genus   |-> <<Row(nAB, nA, 1, 1), Row(nA, nA, 2, 1), Row(nB, nB, 2, 1)>>,
     species |-> <<Row(nA, nA, 1, 1), Row(nB, nB, 1, 1), Row(nAB, nB, 1, 1)>>]

\* Tied kingdoms, children that do not add up to their parent, a phylum whose
\* kingdom has no record, and no table below the classes.
DataInconsistent ==
    [kingdom |-> <<Row(nB, NoName, 4, 1), Row(nA, NoName, 4, 0)>>,
     phylum  |-> <<Row(nA, nB, 1, 1), Row(nAB, nB, 5, 2), Row(nB, nAB, 2, 0)>>,
     class   |-> <<Row(nA, nAB, 2, 1)>>,
     order   |-> <<>>,
     family  |-> <<>>,
     genus   |-> <<>>,
     species |-> <<>>]

DataSets == {DataTwoLineages, DataInconsistent}

Init ==
    /\ phase = "start"
    /\ variant \in {"log", "linear"}
    /\ loaded = EmptyTables
    /\ taxonomyData = EmptyTables
    /\ expandedNodes = EmptyMap
    /\ rendered = <<>>
    /\ last = NoCall
    /\ calls = 0
    /\ svg = FALSE
    /\ messages = <<>>
    /\ commonNames = NoCommonNames
    /\ termColors = NoColors
    /\ currentColorIndex = 0

\* window.onload = init: the files are loaded and stored, the tree is drawn
init(ds) ==
    /\ phase = "start"
    /\ variant \in {"log", "linear"}
    /\ LET cv == createVisualization(variant, ds, expandedNodes)
       IN  /\ taxonomyData' = cv.data
           /\ rendered' = cv.rows
           /\ paint(cv.rows)
    /\ phase' = "ready"
    /\ loaded' = ds
    /\ last' = [NoCall EXCEPT !.op = "init", !.prevData = ds]
    /\ svg' = TRUE
    /\ UNCHANGED <<variant, expandedNodes, calls, messages, commonNames>>

\* toggleExpansion(level, name, occurrenceCount) and its createVisualization()
toggleStep(op, level, name, count) ==
    \E expanded \in {toggleExpansion(expandedNodes, level, name, count)} :
        /\ expandedNodes' = expanded
        /\ \E cv \in {createVisualization(variant, taxonomyData, expanded)} :
               /\ taxonomyData' = cv.data
               /\ rendered' = cv.rows
               /\ paint(cv.rows)
        /\ last' = [op |-> op, level |-> level, name |-> name, count |-> count,
                    branch |-> toggleBranch(expandedNodes, level, name),
                    had |-> Key(level, name) \in DOMAIN expandedNodes,
                    removed |-> DOMAIN expandedNodes \ DOMAIN expanded,
                    prevData |-> taxonomyData,
                    result |-> NoResult, text |-> NoName]
        /\ UNCHANGED <<phase, variant, loaded, svg, messages, commonNames>>

MutantClickTogglesSpecies(i, j) ==
    /\ phase = "ready"
    /\ variant \in {"log", "linear"}
    /\ toggleStep("click", rendered[i].level, rendered[i].data[j].name,
                  clickCount(variant, rendered[i], rendered[i].data[j]))
    /\ UNCHANGED calls

\* A click on segment j of the drawn row i: the handler calls toggleExpansion
\* unless the row is the species row (level !== 'species'), where it returns
\* without doing anything
Click(i, j) ==
    /\ phase = "ready"
    /\ variant \in {"log", "linear"}
    /\ IF rendered[i].level # "species"
       THEN toggleStep("click", rendered[i].level, rendered[i].data[j].name,
                       clickCount(variant, rendered[i], rendered[i].data[j]))
       ELSE /\ last' = [NoCall EXCEPT !.op = "clickSpecies", !.level = "species",
                                      !.name = rendered[i].data[j].name,
                                      !.prevData = taxonomyData]
            /\ UNCHANGED <<phase, variant, loaded, taxonomyData, expandedNodes, rendered,
                           svg, messages, commonNames,
                           termColors, currentColorIndex>>
    /\ UNCHANGED calls

\* toggleExpansion called directly, with any key and count
ToggleCall(level, name, count) ==
    /\ phase = "ready"
    /\ calls < MaxDirectCalls
    /\ calls' = calls + 1
    /\ toggleStep("call", level, name, count)

Next ==
    \/ \E ds \in DataSets : init(ds)
    \/ \E i \in 1..Len(rendered) : \E j \in 1..Len(rendered[i].data) : Click(i, j)
    \/ \E level \in Levels, name \in Names, count \in 0..MaxCallCount :
           ToggleCall(level, name, count)

Spec == Init /\ [][Next]_vars

----------------------------------------------------------------------------
(* The functions over the tables, applied to drawn tables *)

DrawnNames == {nA, nB}

DrawnRows == {Row(n, p, c, 1) : n \in DrawnNames, p \in DrawnNames, c \in 0..MaxCount}

\* Tables of at most MaxRows rows; a name occurs once under a parent
DrawnTables ==
    UNION {{t \in [1..k -> DrawnRows] :
               \A i, j \in 1..k :
                   i < j => <<t[i].name, t[i].parent>> # <<t[j].name, t[j].parent>>} :
           k \in 0..MaxRows}

\* The table of the level above: no record, or the record of parent "a"
ParentTables == {<<>>} \cup {<<Row(nA, nA, c, 1)>> : c \in 0..MaxCount}

\* The rows of a kingdom file: they have no column of a level above
asKingdoms(t) == [i \in 1..Len(t) |-> [t[i] EXCEPT !.parent = NoName]]

OneExpanded == [k \in {Key("kingdom", nA)} |-> 1]

InitFilter ==
    /\ phase = "ready"
    /\ variant \in {"log", "linear", "detail"}
    /\ \E t \in DrawnTables, p \in ParentTables :
           \E lvl \in (IF variant = "detail" THEN {"species"}
                       ELSE {"kingdom", "phylum", "species"}) :
               /\ lvl = "kingdom" => \A i \in 1..Len(t) : t[i].parent = nA
               /\ taxonomyData =
                      [l \in Levels |->
                          IF l = lvl THEN (IF lvl = "kingdom" THEN asKingdoms(t) ELSE t)
                          ELSE IF variant = "detail" /\ l = "phylum" THEN p
                          ELSE IF variant # "detail" /\ l = getPreviousLevel(lvl)
                          THEN (IF l = "kingdom" THEN asKingdoms(p) ELSE p)
                          ELSE <<>>]
    /\ loaded = taxonomyData
    /\ expandedNodes = OneExpanded
    /\ rendered = <<>>
    /\ last = NoCall
    /\ calls = 0
    /\ svg = TRUE
    /\ messages = <<>>
    /\ commonNames = NoCommonNames
    /\ termColors = NoColors
    /\ currentColorIndex = 0

\* filterTaxonomicData(level, parent) called on the tables
FilterCall(level, parent) ==
    /\ variant \in {"log", "linear"}
    /\ LET f == filterFor(variant, taxonomyData, level, parent)
       IN  /\ taxonomyData' = f.data
           /\ last' = [NoCall EXCEPT !.op = "filter", !.level = level, !.name = parent,
                                     !.prevData = taxonomyData,
                                     !.result = [status |-> f.status, rows |-> f.rows]]
    /\ UNCHANGED <<phase, variant, loaded, expandedNodes, rendered, calls, svg, messages, commonNames,
                   termColors, currentColorIndex>>

\* createSpeciesChart(phylum, yOffset) for record i of the phyla table (the
\* "detail" variant keeps phyla and species in globals of their own; they are
\* the tables of the levels "phylum" and "species" here)
SpeciesChartCall(i) ==
    /\ variant = "detail"
    /\ last' = [NoCall EXCEPT !.op = "speciesChart", !.level = "species",
                              !.name = taxonomyData["phylum"][i].name,
                              !.prevData = taxonomyData,
                              !.result = [status |-> "ok",
                                          rows |-> createSpeciesChart(taxonomyData["species"],
                                                       taxonomyData["phylum"][i])]]
    /\ UNCHANGED <<phase, variant, loaded, taxonomyData, expandedNodes, rendered, calls,
                   svg, messages, commonNames,
                   termColors, currentColorIndex>>

CallLevels == {l \in Levels : taxonomyData[l] # <<>>} \cup UnknownLevels

NextFilter ==
    \/ \E level \in CallLevels, parent \in DrawnNames \cup {NoName} :
           FilterCall(level, parent)
    \/ \E i \in 1..Len(taxonomyData["phylum"]) : SpeciesChartCall(i)

SpecFilter == InitFilter /\ [][NextFilter]_vars

----------------------------------------------------------------------------
(* Properties of the expansion state (specification Spec) *)

ToggleOps == {"click", "call"}

levelIndex(k) == indexOf(k[1])

keysAt(expanded, level) == {k \in DOMAIN expanded : k[1] = level}

lastKey == Key(last.level, last.name)

\* The name of the ancestor at level `target` of record `name` of `level`,
\* following the parent fields up the tables; NoName when a record is missing
RECURSIVE ancestorAt(_, _, _, _)
ancestorAt(data, level, name, target) ==
    IF level = target THEN name
    ELSE IF level \notin Levels \/ findIndex(data[level], name) = 0 THEN NoName
    ELSE ancestorAt(data, getPreviousLevel(level),
                    data[level][findIndex(data[level], name)].parent, target)

\* The keys of the branch that leads to record `name` of `level`
branchKeys(data, level, name) ==
    {Key(l, ancestorAt(data, level, name, l)) :
        l \in {m \in Levels : indexOf(m) <= indexOf(level)}}

\* C1: after any sequence of toggles from the empty state, every taxonomy
\* level holds at most one expanded key.
C1_AtMostOneKeyPerLevel ==
    \A level \in Levels : Cardinality(keysAt(expandedNodes, level)) <= 1

\* C1 witness: a toggle replaced the key expanded at its level while a key of
\* another level stays expanded.
C1_Witness ==
    /\ last.op \in ToggleOps
    /\ last.branch = "expand"
    /\ \E k \in last.removed : k[1] = last.level /\ k # lastKey
    /\ Cardinality(DOMAIN expandedNodes) >= 2

\* C2: a toggle of a key that is not expanded leaves no key at its level or
\* deeper except the key itself, which then maps to the count handed in.
C2_ExpandClearsLevelAndDeeper ==
    (last.op \in ToggleOps /\ (~last.had \/ last.branch = "expand")) =>
        /\ lastKey \in DOMAIN expandedNodes
        /\ expandedNodes[lastKey] = last.count
        /\ \A k \in DOMAIN expandedNodes :
               levelIndex(k) >= indexOf(last.level) => k = lastKey
        /\ \A k \in last.removed : levelIndex(k) >= indexOf(last.level)

\* C2 witness: the toggle of an absent key removed a key of its level and a
\* deeper key, and a shallower key is still there.
C2_Witness ==
    /\ last.op \in ToggleOps
    /\ ~last.had
    /\ \E k \in last.removed : levelIndex(k) = indexOf(last.level)
    /\ \E k \in last.removed : levelIndex(k) > indexOf(last.level)
    /\ \E k \in DOMAIN expandedNodes : levelIndex(k) < indexOf(last.level)

\* C3: a toggle of a key that is in the expansion state removes the key and
\* every deeper key, and every shallower key keeps its count.
C3_CollapseRemovesKeyAndDeeper ==
    [][(last'.op \in ToggleOps /\ Key(last'.level, last'.name) \in DOMAIN expandedNodes) =>
          /\ Key(last'.level, last'.name) \notin DOMAIN expandedNodes'
          /\ \A k \in DOMAIN expandedNodes' : levelIndex(k) < indexOf(last'.level)
          /\ \A k \in DOMAIN expandedNodes :
                 levelIndex(k) < indexOf(last'.level) =>
                     k \in DOMAIN expandedNodes' /\ expandedNodes'[k] = expandedNodes[k]]_vars

\* The case of C4: phylum p1 is expanded and the toggle is of an absent genus
\* key whose lineage reaches another phylum
otherLineage(expanded, data, level, name, p1) ==
    /\ level = "genus"
    /\ Key(level, name) \notin DOMAIN expanded
    /\ isExpanded(expanded, "phylum", p1)
    /\ ancestorAt(data, "genus", name, "phylum") \notin {NoName, p1}

\* C4: expanding a genus of another phylum lineage collapses the expanded
\* phylum: afterwards the phylum level holds at most one key and the deeper
\* levels hold keys of the new branch only.
C4_OtherLineageCollapsesPhylum ==
    [][\A p1 \in Names :
          (last'.op \in ToggleOps
           /\ otherLineage(expandedNodes, taxonomyData, last'.level, last'.name, p1)) =>
              /\ Key("phylum", p1) \notin DOMAIN expandedNodes'
              /\ Cardinality(keysAt(expandedNodes', "phylum")) <= 1
              /\ \A k \in DOMAIN expandedNodes' :
                     levelIndex(k) > indexOf("phylum") =>
                         k \in branchKeys(taxonomyData, last'.level, last'.name)]_vars

\* C4 as amended: expanding a genus of another phylum lineage leaves the
\* expanded phylum, and every other key above the genus level, in place with
\* its count; the phylum level holds at most one key and the genus is the only
\* key at the genus level or deeper.
C4_OtherLineageKeepsPhylum ==
    [][\A p1 \in Names :
          (last'.op \in ToggleOps
           /\ otherLineage(expandedNodes, taxonomyData, last'.level, last'.name, p1)) =>
              /\ Key("phylum", p1) \in DOMAIN expandedNodes'
              /\ \A k \in DOMAIN expandedNodes :
                     levelIndex(k) < indexOf("genus") =>
                         k \in DOMAIN expandedNodes' /\ expandedNodes'[k] = expandedNodes[k]
              /\ Cardinality(keysAt(expandedNodes', "phylum")) <= 1
              /\ \A k \in DOMAIN expandedNodes' :
                     levelIndex(k) >= indexOf("genus") =>
                         k = Key(last'.level, last'.name)]_vars

\* C4 witness: a genus was expanded while a phylum outside its lineage is
\* expanded, together with a class of that phylum.
C4_Witness ==
    /\ last.op \in ToggleOps
    /\ last.level = "genus"
    /\ ~last.had
    /\ lastKey \in DOMAIN expandedNodes
    /\ \E p1 \in Names :
           /\ isExpanded(expandedNodes, "phylum", p1)
           /\ ancestorAt(taxonomyData, "genus", last.name, "phylum") \notin {NoName, p1}
           /\ \E k \in keysAt(expandedNodes, "class") :
                  ancestorAt(taxonomyData, "class", k[2], "phylum") = p1

\* the drawn rows hold the row of the children of record `name` of `level`
childRowDrawn(level, name) ==
    \E i \in 1..Len(rendered) :
        rendered[i].level = getNextLevel(level) /\ rendered[i].parent = name

\* C5: isExpanded holds exactly for the keys of the expansion state, whatever
\* the count recorded (0 included): the child row of such a node is drawn when
\* the node is drawn and has children, and its next toggle collapses it.
C5_ExpandedIffKey ==
    \A level \in Levels, name \in Names :
        /\ isExpanded(expandedNodes, level, name) <=>
               Key(level, name) \in DOMAIN expandedNodes
        /\ Key(level, name) \in DOMAIN expandedNodes =>
               /\ toggleBranch(expandedNodes, level, name) = "collapse"
               /\ (/\ getNextLevel(level) # NullLevel
                   /\ \E i \in 1..Len(rendered) :
                          /\ rendered[i].level = level
                          /\ \E j \in 1..Len(rendered[i].data) :
                                 rendered[i].data[j].name = name
                   /\ filterFor(variant, taxonomyData, getNextLevel(level), name).rows # <<>>)
                  => childRowDrawn(level, name)

----------------------------------------------------------------------------
(* Properties of the functions over the tables (specification SpecFilter,  *)
(* C7 under Spec)                                                          *)

\* Order of the text fragments by their first UTF-16 code unit
FragmentOrder == <<" species", "Other", "a", "b">>

fragmentRank(f) == CHOOSE i \in 1..Len(FragmentOrder) : FragmentOrder[i] = f

\* x <= y as JavaScript compares strings
RECURSIVE nameLeq(_, _)
nameLeq(x, y) ==
    IF x = <<>> THEN TRUE
    ELSE IF y = <<>> THEN FALSE
    ELSE IF x[1] = y[1] THEN nameLeq(Tail(x), Tail(y))
    ELSE fragmentRank(x[1]) < fragmentRank(y[1])

filterReturned == last.op = "filter" /\ last.result.status = "ok"

resultRows == last.result.rows

isResidual(r) == r.name = OtherSpecies

\* the rows of the result that come from the table
listedRows == SelectSeq(resultRows, LAMBDA r : ~isResidual(r))

\* the table the call read, as it was before the call
calledTable == last.prevData[last.level]

positionIn(table, r) == CHOOSE k \in 1..Len(table) : table[k] = r

occurrencesOf(rows, r) == Cardinality({i \in 1..Len(rows) : rows[i] = r})

sameRows(a, b) ==
    /\ Len(a) = Len(b)
    /\ \A i \in 1..Len(a) : occurrencesOf(a, a[i]) = occurrencesOf(b, a[i])

\* C6: the rows filterTaxonomicData returns are in descending order of
\* occurrence_count, and rows of equal count are in ascending order of name,
\* whatever the order of the table.
C6_SortedWithNameTieBreak ==
    filterReturned =>
        \A i, j \in 1..Len(resultRows) :
            i < j =>
                \/ resultRows[i].occurrence_count > resultRows[j].occurrence_count
                \/ /\ resultRows[i].occurrence_count = resultRows[j].occurrence_count
                   /\ nameLeq(resultRows[i].name, resultRows[j].name)

\* C6 as amended: the rows taken from the table are returned in non-increasing
\* order of occurrence_count, rows of equal count in the order they have in
\* the table (the sort is stable and has no tie-break), and the synthesized
\* "Other species" row, when there is one, comes last whatever its count.
C6_SortedStableResidualLast ==
    filterReturned =>
        /\ \A i, j \in 1..Len(listedRows) :
               i < j =>
                   /\ listedRows[i].occurrence_count >= listedRows[j].occurrence_count
                   /\ listedRows[i].occurrence_count = listedRows[j].occurrence_count
                          => positionIn(calledTable, listedRows[i])
                                 < positionIn(calledTable, listedRows[j])
        /\ \A i \in 1..Len(resultRows) : isResidual(resultRows[i]) => i = Len(resultRows)

\* C6 witness: two rows of equal count were returned in their table order,
\* which is not the order of their names, before a larger "Other species" row.
C6_Witness ==
    /\ filterReturned
    /\ Len(resultRows) = 3
    /\ resultRows[1].occurrence_count = resultRows[2].occurrence_count
    /\ ~nameLeq(resultRows[1].name, resultRows[2].name)
    /\ isResidual(resultRows[3])
    /\ resultRows[3].occurrence_count > resultRows[2].occurrence_count

\* C7: no call of filterTaxonomicData, hence no render and no toggle, changes a
\* loaded table, in content or in row order.
C7_TablesAsLoaded ==
    phase = "ready" => taxonomyData = loaded

\* C8: without a parent the call returns all rows of the table of the level;
\* with a parent it returns exactly the rows whose parent field is that
\* parent, plus at most one synthesized row and that at the species level only.
C8_ExactlyTheChildren ==
    filterReturned =>
        IF last.name = NoName
        THEN sameRows(resultRows, calledTable)
        ELSE /\ sameRows(listedRows,
                         SelectSeq(calledTable, LAMBDA d : d.parent = last.name))
             /\ Len(resultRows) - Len(listedRows) <= 1
             /\ Len(resultRows) > Len(listedRows) => last.level = "species"
             /\ \A i \in 1..Len(resultRows) : resultRows[i].parent = last.name

\* C8 witness: a call with a parent returned rows from a table that also holds
\* a row of another parent.
C8_Witness ==
    /\ filterReturned
    /\ last.name # NoName
    /\ listedRows # <<>>
    /\ \E i \in 1..Len(calledTable) : calledTable[i].parent # last.name

\* C9: a call with an unknown level fails with NotFoundError and changes
\* neither the expansion state nor the tables.
C9_UnknownLevelNotFoundError ==
    [][(last'.op = "filter" /\ last'.level \notin Levels) =>
          /\ last'.result.status = "NotFoundError"
          /\ expandedNodes' = expandedNodes
          /\ taxonomyData' = taxonomyData]_vars

\* C9 as amended: a call with an unknown level fails with the TypeError of
\* reading a property of the undefined table (the code has no NotFoundError)
\* and changes neither the expansion state nor the tables.
C9_UnknownLevelTypeError ==
    [][(last'.op = "filter" /\ last'.level \notin Levels) =>
          /\ last'.result.status = "TypeError"
          /\ last'.result.rows = <<>>
          /\ expandedNodes' = expandedNodes
          /\ taxonomyData' = taxonomyData]_vars

\* C9 witness: a call with an unknown level failed while tables are loaded and
\* a node is expanded.
C9_Witness ==
    /\ last.op = "filter"
    /\ last.level \in UnknownLevels
    /\ last.result.status = "TypeError"
    /\ expandedNodes # EmptyMap
    /\ \E l \in Levels : taxonomyData[l] # <<>>

\* The case of C10: the species of a parent were requested, the parent has a
\* record and its count exceeds the sum of the species listed for it
residualParentLevel == IF variant = "detail" THEN "phylum" ELSE "genus"

residualParentCount ==
    LET table == last.prevData[residualParentLevel]
    IN  table[findIndex(table, last.name)].occurrence_count

listedSpeciesSum ==
    sumOccurrences(SelectSeq(last.prevData["species"], LAMBDA d : d.parent = last.name))

residualCase ==
    /\ \/ last.op = "filter" /\ last.level = "species"
       \/ last.op = "speciesChart"
    /\ last.name # NoName
    /\ findIndex(last.prevData[residualParentLevel], last.name) # 0
    /\ listedSpeciesSum < residualParentCount

rowsNamed(n) == {i \in 1..Len(resultRows) : resultRows[i].name = n}

coveredCase ==
    /\ \/ last.op = "filter" /\ last.level = "species"
       \/ last.op = "speciesChart"
    /\ last.name # NoName
    /\ findIndex(last.prevData[residualParentLevel], last.name) # 0
    /\ listedSpeciesSum >= residualParentCount

\* C11: when the species listed for a parent sum to at least the parent's
\* occurrence_count, the species data that is drawn holds no residual record
\* ("Other species" or "Other"), in any variant.
C11_NoResidualWhenCovered ==
    coveredCase => rowsNamed(OtherSpecies) = {} /\ rowsNamed(Other) = {}

----------------------------------------------------------------------------
(* The drawing of one row (specification SpecRender)                       *)

\* The thresholds of logScale = d3.scaleLog().domain([0.01, 100]) in half
\* decades of the percentage p = 100 * c / t: p >= 10^(n/2 - 2) exactly when
\* LogThresholds[n] * c^2 >= t^2
LogThresholds == <<10000000, 1000000, 100000, 10000, 1000, 100, 10, 1>>

\* logScale(Math.max(0.01, (c / t) * 100)) with clamp(true), in units of one
\* half decade of the range [0, availableWidth] (Len(LogThresholds) units are
\* the whole range), rounded down
logScale(c, t) ==
    IF c = 0
    THEN Cardinality({n \in 1..Len(LogThresholds) : 0 >= t * t})
    ELSE \* LogThresholds[n] * c^2 >= t^2, with the quotient rounded up so that
         \* the products stay small
         Cardinality({n \in 1..Len(LogThresholds) :
                         LogThresholds[n] >= (t * t + c * c - 1) \div (c * c)})

RECURSIVE totalLogWidth(_, _)
totalLogWidth(rows, t) ==
    IF rows = <<>> THEN 0
    ELSE logScale(rows[1].occurrence_count, t) + totalLogWidth(Tail(rows), t)

\* The share c / total a label shows as a percentage, as the quotient num/den
widthFraction(r, i) ==
    [num |-> r.data[i].occurrence_count, den |-> r.totalOccurrences]

MutantWidthsNoScaleFactor(v, r) ==
    [i \in 1..Len(r.data) |->
        IF v = "linear"
        THEN [num |-> r.data[i].occurrence_count, den |-> r.totalOccurrences]
        ELSE [num |-> logScale(r.data[i].occurrence_count, r.totalOccurrences),
              den |-> Len(LogThresholds)]]

\* The widths of the segments of a drawn row, as quotients num/den of the
\* available width; den = 0 is a width that is not a number (0/0, 0 * Infinity)
segmentWidths(v, r) ==
    [i \in 1..Len(r.data) |->
        IF v = "linear"
        THEN [num |-> r.data[i].occurrence_count, den |-> r.totalOccurrences]
        ELSE [num |-> logScale(r.data[i].occurrence_count, r.totalOccurrences),
              den |-> IF r.totalOccurrences = 0 THEN 0
                      ELSE totalLogWidth(r.data, r.totalOccurrences)]]

\* renderTaxonomicLevel(level, parent, 0) called on drawn tables
RenderCall(level, parent) ==
    /\ variant \in {"log", "linear"}
    /\ \E f \in {filterFor(variant, taxonomyData, level, parent)} :
           /\ taxonomyData' = f.data
           /\ rendered' = renderTaxonomicLevel(variant, taxonomyData, expandedNodes,
                                               level, parent, 0)
           /\ paint(rendered')
           /\ last' = [NoCall EXCEPT !.op = "render", !.level = level, !.name = parent,
                                     !.prevData = taxonomyData,
                                     !.result = [status |-> f.status, rows |-> f.rows]]
    /\ UNCHANGED <<phase, variant, loaded, expandedNodes, calls, svg, messages, commonNames>>

NextRender ==
    \E level \in {l \in Levels : taxonomyData[l] # <<>>},
       parent \in DrawnNames \cup {NoName} :
        RenderCall(level, parent)

SpecRender == InitFilter /\ [][NextRender]_vars

----------------------------------------------------------------------------
(* Properties of the drawn row (specification SpecRender) *)

renderReturned == last.op = "render" /\ last.result.status = "ok"

\* the row drawn by the call (the first of rendered; rows of children follow)
drawnRow == rendered[1]

rowDrawn == rendered # <<>> /\ drawnRow.level = last.level /\ drawnRow.parent = last.name

\* the records of the called level that name the parent, as loaded
childRecords ==
    SelectSeq(last.prevData[last.level],
              LAMBDA d : parentField(d, getPreviousLevel(last.level)) = last.name)

parentRecordExists ==
    /\ last.name # NoName
    /\ getPreviousLevel(last.level) # NullLevel
    /\ findIndex(last.prevData[getPreviousLevel(last.level)], last.name) # 0

parentRecordCount ==
    LET table == last.prevData[getPreviousLevel(last.level)]
    IN  table[findIndex(table, last.name)].occurrence_count

RECURSIVE sumNum(_)
sumNum(ws) == IF ws = <<>> THEN 0 ELSE ws[1].num + sumNum(Tail(ws))

\* the quotients add up to exactly 1
sumToOne(ws) ==
    /\ ws # <<>>
    /\ \A i \in 1..Len(ws) : ws[i].den = ws[1].den /\ ws[i].den # 0
    /\ sumNum(ws) = ws[1].den

fractionsOf(r) == [i \in 1..Len(r.data) |-> widthFraction(r, i)]

\* the row has a segment of positive width: its total is not 0 and, on the
\* log scale, some share is above the lower end of the domain
hasShare(v, r) ==
    /\ r.totalOccurrences # 0
    /\ v = "log" => \E i \in 1..Len(r.data) :
                        logScale(r.data[i].occurrence_count, r.totalOccurrences) > 0

positiveCounts(rows) == \A i \in 1..Len(rows) : rows[i].occurrence_count > 0

C13_TotalParentElseSum ==
    (renderReturned /\ last.result.rows # <<>>)
    => /\ rowDrawn
       /\ drawnRow.data = last.result.rows
       /\ drawnRow.totalOccurrences =
              IF parentRecordExists THEN parentRecordCount
              ELSE sumOccurrences(last.result.rows)

\* C13 as amended: in the "log" variant the total is the parent's recorded
\* count when the parent has a record and that count is not 0, and the sum of
\* the counts drawn otherwise (root row, no record, count 0); in the "linear"
\* variant it is always that sum.  The row is drawn in every case.
C13_TotalPerVariant ==
    (renderReturned /\ last.result.rows # <<>>)
    => /\ rowDrawn
       /\ drawnRow.data = last.result.rows
       /\ drawnRow.totalOccurrences =
              IF variant = "log" /\ parentRecordExists /\ parentRecordCount # 0
              THEN parentRecordCount
              ELSE sumOccurrences(last.result.rows)

\* C13 witness: the "log" variant drew the row of a parent that has no record
\* in the level above, with the sum of two children as its total.
C13_Witness ==
    /\ renderReturned /\ rowDrawn
    /\ variant = "log"
    /\ last.name # NoName
    /\ ~parentRecordExists
    /\ Len(drawnRow.data) = 2
    /\ positiveCounts(drawnRow.data)
    /\ drawnRow.totalOccurrences = sumOccurrences(drawnRow.data)

\* The case of C14: the records under a parent do not add up to its count
inconsistentAggregate ==
    /\ renderReturned
    /\ parentRecordExists
    /\ childRecords # <<>>
    /\ positiveCounts(childRecords)
    /\ parentRecordCount > 0
    /\ sumOccurrences(childRecords) # parentRecordCount

----------------------------------------------------------------------------
(* Rows of skewed counts (specification SpecSkew)                          *)

\* Counts of the children of one parent: none, one occurrence, and a count
\* that is 99.9 % of 2000
SkewCounts == {0, 1, 1998}

\* The recorded count of the parent: none, the sum of a skewed row, and one
\* of which a single occurrence is 0.005 %
SkewParentCounts == {0, 2000, 20000}

SkewNames == <<nA, nAB, nB>>

\* The children of parent "a": one to three records, in file order
SkewTables ==
    UNION {{[i \in 1..k |-> Row(SkewNames[i], nA, c[i], 1)] : c \in [1..k -> SkewCounts]} :
           k \in 1..Len(SkewNames)}

InitSkew ==
    /\ phase = "ready"
    /\ variant \in {"log", "linear"}
    /\ \E t \in SkewTables, pc \in SkewParentCounts, lvl \in {"phylum", "species"} :
           taxonomyData =
               [EmptyTables EXCEPT
                   ![lvl] = t,
                   ![getPreviousLevel(lvl)] =
                       <<Row(nA, IF lvl = "phylum" THEN NoName ELSE nA, pc, 1)>>]
    /\ loaded = taxonomyData
    /\ expandedNodes = OneExpanded
    /\ rendered = <<>>
    /\ last = NoCall
    /\ calls = 0
    /\ svg = TRUE
    /\ messages = <<>>
    /\ commonNames = NoCommonNames
    /\ termColors = NoColors
    /\ currentColorIndex = 0

SpecSkew == InitSkew /\ [][NextRender]_vars

\* every share of the row is at or below 0.01 %: 10000 * c <= t
allSharesAtFloor(r) ==
    /\ r.totalOccurrences > 0
    /\ \A i \in 1..Len(r.data) : 10000 * r.data[i].occurrence_count <= r.totalOccurrences

\* one child holds 99.9 % of the total and the others share the rest
extremeSkew(r) ==
    /\ Len(r.data) = 3
    /\ 1000 * r.data[1].occurrence_count = 999 * r.totalOccurrences
    /\ sumOccurrences(r.data) = r.totalOccurrences

\* C22: in the "log" variant the segment widths of a drawn row (children of
\* positive counts) add up to the available width for every input, under
\* extreme skew and also when every share is at or below 0.01 %.
C22_LogWidthsSumToAvailable ==
    (renderReturned /\ rowDrawn /\ variant = "log" /\ positiveCounts(drawnRow.data))
    => sumToOne(segmentWidths(variant, drawnRow))

\* the row is in non-increasing order of occurrence_count
descending(rows) ==
    \A i, j \in 1..Len(rows) : i < j => rows[i].occurrence_count >= rows[j].occurrence_count

\* a child with a larger count has no narrower segment than a sibling with a
\* smaller one (the widths of a row share one denominator)
widthsFollowCounts(v, r) ==
    \A i, j \in 1..Len(r.data) :
        r.data[i].occurrence_count > r.data[j].occurrence_count
        => segmentWidths(v, r)[i].num >= segmentWidths(v, r)[j].num

listedOf(rows) == SelectSeq(rows, LAMBDA d : ~isResidual(d))

\* C23: the children drawn in a row (of positive counts), a synthesized
\* "Other species" record included, are in descending occurrence_count order,
\* and in both width variants a larger count never has a narrower segment.
C23_DrawnDescendingWithResidual ==
    (renderReturned /\ rowDrawn /\ positiveCounts(drawnRow.data))
    => /\ descending(drawnRow.data)
       /\ widthsFollowCounts(variant, drawnRow)

\* C23 as amended: the records taken from the table are drawn in descending
\* occurrence_count order and the synthesized "Other species" record comes
\* after them whatever its count; in both width variants a larger count never
\* has a narrower segment, the residual record included.
C23_ListedDescendingResidualLast ==
    (renderReturned /\ rowDrawn)
    => /\ descending(listedOf(drawnRow.data))
       /\ \A i \in 1..Len(drawnRow.data) :
              isResidual(drawnRow.data[i]) => i = Len(drawnRow.data)
       /\ widthsFollowCounts(variant, drawnRow)

\* C23 witness: the "log" variant drew two species in descending order and,
\* after them, an "Other species" record that is larger than both and wider
\* than both.
C23_Witness ==
    /\ renderReturned /\ rowDrawn
    /\ variant = "log"
    /\ Len(drawnRow.data) = 3
    /\ isResidual(drawnRow.data[3])
    /\ drawnRow.data[1].occurrence_count > drawnRow.data[2].occurrence_count
    /\ drawnRow.data[3].occurrence_count > drawnRow.data[1].occurrence_count
    /\ segmentWidths(variant, drawnRow)[3].num > segmentWidths(variant, drawnRow)[1].num
    /\ segmentWidths(variant, drawnRow)[1].num > segmentWidths(variant, drawnRow)[2].num

----------------------------------------------------------------------------
(* Properties of the tree that is drawn (specification Spec) *)

\* The percentage-of-parent labels of the rows drawn for the children of key
\* k: (totalOccurrences / parentTotal) * 100, as the quotient num/den; no
\* label is drawn when the recorded count is falsy
labelsOf(rows, k) ==
    {[num |-> rows[i].totalOccurrences, den |-> rows[i].parentTotal] :
        i \in {j \in 1..Len(rows) :
                  /\ rows[j].level = getNextLevel(k[1])
                  /\ rows[j].parent = k[2]
                  /\ TruthyNum(rows[j].parentTotal)}}

\* C15: over a toggle of another key, a key that stays in the expansion state
\* keeps the count recorded for it, and the percentage-of-parent label drawn
\* from it is the same before and after.
C15_RecordedCountStable ==
    [][\A k \in DOMAIN expandedNodes \cap DOMAIN expandedNodes' :
           (last'.op \in ToggleOps /\ k # Key(last'.level, last'.name))
           => /\ expandedNodes'[k] = expandedNodes[k]
              /\ labelsOf(rendered', k) = labelsOf(rendered, k)]_vars

\* C15 witness: a deeper key was collapsed while an expanded kingdom kept its
\* count, and the label of the kingdom's child row is drawn.
C15_Witness ==
    /\ last.op \in ToggleOps
    /\ last.branch = "collapse"
    /\ indexOf(last.level) > 0
    /\ \E k \in DOMAIN expandedNodes :
           /\ k[1] = "kingdom"
           /\ labelsOf(rendered, k) # {}

\* the node of key k is a segment of a drawn row
nodeDrawn(rows, k) ==
    \E i \in 1..Len(rows) :
        /\ rows[i].level = k[1]
        /\ \E j \in 1..Len(rows[i].data) : rows[i].data[j].name = k[2]

\* C16: the tree that createVisualization draws is finite and is the result
\* of a recursion that ends: at most one row per taxonomy level, each row one
\* level and one depth below the row before it, no row below the species
\* level, no row without records, and rows of children only for nodes that
\* are expanded.
C16_RenderDescendsAndEnds ==
    phase = "ready" =>
        /\ Len(rendered) <= Len(TAXONOMY_LEVELS)
        /\ \A i \in 1..Len(rendered) :
               /\ rendered[i].level \in Levels
               /\ rendered[i].depth = indexOf(rendered[i].level)
               /\ rendered[i].depth = i - 1
               /\ rendered[i].data # <<>>
               /\ i > 1 => /\ rendered[i].parent # NoName
                           /\ isExpanded(expandedNodes, rendered[i - 1].level,
                                         rendered[i].parent)
                           /\ nodeDrawn(rendered, Key(rendered[i - 1].level,
                                                      rendered[i].parent))

\* C16 witness: the rows of all seven levels are drawn, down to the species
\* of an expanded genus.
C16_Witness ==
    /\ phase = "ready"
    /\ Len(rendered) = Len(TAXONOMY_LEVELS)
    /\ rendered[Len(rendered)].level = "species"

\* the node of key k has records in the next level
hasChildren(k) ==
    /\ getNextLevel(k[1]) # NullLevel
    /\ \E i \in 1..Len(taxonomyData[getNextLevel(k[1])]) :
           taxonomyData[getNextLevel(k[1])][i].parent = k[2]

childRowsOf(k) ==
    {i \in 1..Len(rendered) :
        rendered[i].level = getNextLevel(k[1]) /\ rendered[i].parent = k[2]}

\* C17: after every handler the tree drawn is the tree of the current
\* expansion state: the kingdom row at depth 0, and for each key of the state
\* whose node is drawn at depth d (and has records below it) exactly one row
\* of its children at depth d + 1, and no other row; after init, with the
\* empty state, only the kingdom row is drawn.
C17_RenderedIsTreeOfState ==
    phase = "ready" =>
        /\ taxonomyData["kingdom"] # <<>> =>
               /\ rendered # <<>>
               /\ rendered[1].level = "kingdom" /\ rendered[1].depth = 0
               /\ rendered[1].parent = NoName
               /\ sameRows(rendered[1].data, loaded["kingdom"])
        /\ \A k \in DOMAIN expandedNodes :
               (nodeDrawn(rendered, k) /\ hasChildren(k)) =>
                   /\ Cardinality(childRowsOf(k)) = 1
                   /\ \A i \in childRowsOf(k) : rendered[i].depth = indexOf(k[1]) + 1
        /\ \A i \in 2..Len(rendered) :
               LET k == Key(getPreviousLevel(rendered[i].level), rendered[i].parent)
               IN  k \in DOMAIN expandedNodes /\ nodeDrawn(rendered, k)
        /\ last.op = "init" => expandedNodes = EmptyMap /\ Len(rendered) = 1

----------------------------------------------------------------------------
(* The page from load to resize, in the three variants (specification      *)
(* SpecLoad)                                                               *)

\* error.message of a rejected d3.csv / d3.json, and of the check of init
LoadErrorMessage == "404 Not Found"
EmptyDataMessage == "Required data is missing or empty"

\* The tables the "detail" variant loads (kingdoms, phyla, species)
DetailTables == {"kingdom", "phylum", "species"}

DataNoKingdoms == [DataTwoLineages EXCEPT !.kingdom = <<>>]
DataNoPhyla == [DataTwoLineages EXCEPT !.phylum = <<>>]
DataNoSpecies == [DataTwoLineages EXCEPT !.species = <<>>]

LoadSets == DataSets \cup {DataNoKingdoms, DataNoPhyla, DataNoSpecies}

\* createVisualization() of the "detail" variant: a bar of phyla for each
\* kingdom, in the order of the kingdom table, then (updateDetails) the
\* species panel of each expanded phylum, in the order of the phyla table
createVisualizationDetail(data, expanded) ==
    LET kingdoms == data["kingdom"]
        phyla == data["phylum"]
        bars == [i \in 1..Len(kingdoms) |->
                    [level |-> "phylum", parent |-> kingdoms[i].name, depth |-> 0,
                     data |-> sortByCountDesc(SelectSeq(phyla,
                                  LAMBDA d : d.parent = kingdoms[i].name)),
                     totalOccurrences |-> kingdoms[i].occurrence_count,
                     totalIndividuals |-> Absent,
                     parentTotal |-> Absent]]
        open == SelectSeq(phyla, LAMBDA p : Key("phylum", p.name) \in DOMAIN expanded)
        panels == [i \in 1..Len(open) |->
                      [level |-> "species", parent |-> open[i].name, depth |-> 1,
                       data |-> createSpeciesChart(data["species"], open[i]),
                       totalOccurrences |-> open[i].occurrence_count,
                       totalIndividuals |-> Absent,
                       parentTotal |-> Absent]]
    IN  bars \o panels

InitLoad ==
    /\ phase = "start"
    /\ variant \in {"log", "linear", "detail"}
    /\ loaded = EmptyTables
    /\ taxonomyData = EmptyTables
    /\ expandedNodes = EmptyMap
    /\ rendered = <<>>
    /\ last = NoCall
    /\ calls = 0
    /\ svg = FALSE
    /\ messages = <<>>
    /\ commonNames = NoCommonNames
    /\ termColors = NoColors
    /\ currentColorIndex = 0

MutantInitFailsAfterSurface ==
    /\ phase = "start"
    /\ phase' = "error"
    /\ svg' = TRUE
    /\ messages' = Append(messages, LoadErrorMessage)
    /\ last' = [NoCall EXCEPT !.op = "init",
                              !.result = [status |-> "Error", rows |-> <<>>]]
    /\ UNCHANGED <<variant, loaded, taxonomyData, expandedNodes, rendered, calls, commonNames,
                   termColors, currentColorIndex>>

\* init when a file fails to load: Promise.all rejects, the catch appends
\* the message; nothing is stored and no SVG is built
initFails ==
    /\ phase = "start"
    /\ phase' = "error"
    /\ messages' = Append(messages, LoadErrorMessage)
    /\ last' = [NoCall EXCEPT !.op = "init",
                              !.result = [status |-> "Error", rows |-> <<>>]]
    /\ UNCHANGED <<variant, loaded, taxonomyData, expandedNodes, rendered, calls, svg, commonNames,
                   termColors, currentColorIndex>>

\* init of the "detail" variant: the tables are stored, then checked
initDetail(ds) ==
    /\ phase = "start"
    /\ variant = "detail"
    /\ LET stored == [l \in Levels |-> IF l \in DetailTables THEN ds[l] ELSE <<>>]
       IN  /\ taxonomyData' = stored
           /\ loaded' = stored
           /\ IF stored["kingdom"] = <<>> \/ stored["phylum"] = <<>>
              THEN /\ phase' = "error"
                   /\ messages' = Append(messages, EmptyDataMessage)
                   /\ last' = [NoCall EXCEPT !.op = "init", !.prevData = stored,
                                   !.result = [status |-> "Error", rows |-> <<>>]]
                   /\ UNCHANGED <<rendered, svg>>
              ELSE /\ phase' = "ready"
                   /\ svg' = TRUE
                   /\ rendered' = createVisualizationDetail(stored, expandedNodes)
                   /\ last' = [NoCall EXCEPT !.op = "init", !.prevData = stored]
                   /\ UNCHANGED messages
    /\ UNCHANGED <<variant, expandedNodes, calls, commonNames,
                   termColors, currentColorIndex>>

\* window.onresize: svg.attr(...) throws a TypeError while svg is undefined;
\* otherwise the visualization is drawn again
Resize ==
    /\ IF svg
       THEN /\ \E cv \in {IF variant = "detail"
                          THEN [rows |-> createVisualizationDetail(taxonomyData,
                                                                   expandedNodes),
                                data |-> taxonomyData]
                          ELSE createVisualization(variant, taxonomyData,
                                                   expandedNodes)} :
                   /\ rendered' = cv.rows
                   /\ taxonomyData' = cv.data
                   /\ IF variant = "detail" THEN UNCHANGED colorVars ELSE paint(cv.rows)
            /\ last' = [NoCall EXCEPT !.op = "resize", !.prevData = taxonomyData,
                            !.result = [status |-> "ok", rows |-> <<>>]]
       ELSE /\ last' = [NoCall EXCEPT !.op = "resize", !.prevData = taxonomyData,
                            !.result = [status |-> "TypeError", rows |-> <<>>]]
            /\ UNCHANGED <<rendered, taxonomyData, termColors, currentColorIndex>>
    /\ UNCHANGED <<phase, variant, loaded, expandedNodes, calls, svg, messages, commonNames>>

NextLoad ==
    \/ \E ds \in LoadSets : init(ds)
    \/ \E ds \in LoadSets : initDetail(ds)
    \/ initFails
    \/ Resize
    \/ \E i \in 1..Len(rendered) : \E j \in 1..Len(rendered[i].data) : Click(i, j)

SpecLoad == InitLoad /\ [][NextLoad]_vars

----------------------------------------------------------------------------
(* Properties of the load (specification SpecLoad) *)

loadFailed == phase = "error" /\ messages # <<>> /\ messages[1] = LoadErrorMessage

\* C18: when a file fails to load, init ends in a terminal error state:
\* exactly one error message is shown, the SVG is never built, and no later
\* event (a resize included) draws anything or leaves the state.
C18_LoadFailureIsTerminal ==
    [][/\ (phase = "start" /\ phase' = "error" /\ last'.prevData = EmptyTables)
           => messages' = <<LoadErrorMessage>>
       /\ loadFailed
           => /\ phase' = "error"
              /\ messages' = messages /\ Len(messages) = 1
              /\ ~svg /\ ~svg'
              /\ rendered = <<>> /\ rendered' = <<>>]_vars

\* C18 witness: the window was resized after a failed load, and the handler
\* ended with the TypeError of the undefined svg.
C18_Witness ==
    /\ loadFailed
    /\ last.op = "resize"
    /\ last.result.status = "TypeError"
    /\ rendered = <<>>

\* The tables a variant requires
requiredTables == IF variant = "detail" THEN DetailTables ELSE Levels

\* C19: when a required table loads but is empty, the data-load error is
\* raised: the error message is shown once and no chart is drawn, in every
\* variant and for every required table.
C19_EmptyTableIsLoadError ==
    (/\ phase # "start"
     /\ last.op = "init" /\ last.prevData # EmptyTables
     /\ \E l \in requiredTables : last.prevData[l] = <<>>)
    => /\ phase = "error"
       /\ Len(messages) = 1
       /\ rendered = <<>>



\* ---------------------------------------------------------------------------
\* Display names.  A text is a sequence of fragments, so that the common name,
\* the scientific name and the punctuation around them stay distinguishable.
\* ---------------------------------------------------------------------------

\* A common name, and the empty text of a row whose common_name field is blank
SeaStar == <<"Sea ", "star">>
CommonInputs == {SeaStar, NoName}

\* The scientific names looked up
DisplayNames == {nA, nB}

\* The type arguments of the call sites, and one no call site passes
DisplayLevels == {"kingdom", "phylum", "species"}

\* Every lookup from some of the names to a common name
NameMaps == UNION {[D -> CommonInputs] : D \in SUBSET DisplayNames}

\* The tree pages build one flat lookup from common_names.csv
\* (Object.fromEntries of [scientific_name, common_name]); the detail page
\* keeps the parsed common-names.json, partitioned into phyla and species.
\* A common-names.json may lack a category, or be missing altogether
\* (commonNames = commonNamesData || {}): the category is then no key of the
\* table.
CommonNameTables(v) ==
    IF v = "detail"
    THEN UNION {{[t \in C |-> IF t = "phyla" THEN p ELSE s] :
                    p \in (IF "phyla" \in C THEN NameMaps ELSE {NoCommonNames["phyla"]}),
                    s \in (IF "species" \in C THEN NameMaps ELSE {NoCommonNames["species"]})} :
                C \in SUBSET {"phyla", "species"}}
    ELSE {[NoCommonNames EXCEPT !["all"] = m] : m \in NameMaps}

\* `${common} (${name})`
withScientific(common, name) == common \o <<" (">> \o name \o <<")">>

MutantDisplayNameCommonOnly(v, cn, name, level) ==
    IF v # "detail" /\ name \in DOMAIN cn["all"] /\ TruthyName(cn["all"][name])
    THEN cn["all"][name]
    ELSE name

\* getDisplayName(name, level) of the tree pages tests commonNames[name] for
\* truthiness and ignores the level; getDisplayName(name, type) of the detail
\* page tests the entry object, and answers the common name alone for a
\* phylum.
getDisplayName(v, cn, name, level) ==
    IF v = "detail"
    THEN IF level = "phylum"
         THEN IF "phyla" \in DOMAIN cn /\ name \in DOMAIN cn["phyla"]
              THEN cn["phyla"][name]
              ELSE name
         ELSE IF level = "species" /\ "species" \in DOMAIN cn
                 /\ name \in DOMAIN cn["species"]
              THEN withScientific(cn["species"][name], name)
              ELSE name
    ELSE IF name \in DOMAIN cn["all"] /\ TruthyName(cn["all"][name])
         THEN withScientific(cn["all"][name], name)
         ELSE name

InitNames ==
    /\ phase = "ready"
    /\ variant \in {"log", "linear", "detail"}
    /\ commonNames \in CommonNameTables(variant)
    /\ termColors = NoColors
    /\ currentColorIndex = 0
    /\ taxonomyData = EmptyTables
    /\ loaded = EmptyTables
    /\ expandedNodes = OneExpanded
    /\ rendered = <<>>
    /\ last = NoCall
    /\ calls = 0
    /\ svg = TRUE
    /\ messages = <<>>

MutantDisplayNameCallCaches(name, level) ==
    /\ phase = "ready"
    /\ last' = [NoCall EXCEPT !.op = "displayName", !.level = level, !.name = name,
                              !.text = getDisplayName(variant, commonNames, name, level)]
    /\ commonNames' = [t \in DOMAIN commonNames \cup {"all"} |->
                          IF t = "all" THEN (name :> last'.text) ELSE commonNames[t]]
    /\ UNCHANGED <<phase, variant, loaded, taxonomyData, expandedNodes, rendered, calls,
                   svg, messages,
                   termColors, currentColorIndex>>

\* One call of getDisplayName, as a label or a tooltip makes it
DisplayNameCall(name, level) ==
    /\ phase = "ready"
    /\ last' = [NoCall EXCEPT !.op = "displayName", !.level = level, !.name = name,
                              !.text = getDisplayName(variant, commonNames, name, level)]
    /\ UNCHANGED <<phase, variant, loaded, taxonomyData, expandedNodes, rendered, calls,
                   svg, messages, commonNames,
                   termColors, currentColorIndex>>

NextNames == \E name \in DisplayNames, level \in DisplayLevels : DisplayNameCall(name, level)

SpecNames == InitNames /\ [][NextNames]_vars

\* The table the page consults for a name at a level: the flat lookup on the
\* tree pages, the partition of the level on the detail page
entryTable(level) ==
    IF variant = "detail"
    THEN (IF level = "phylum" /\ "phyla" \in DOMAIN commonNames THEN commonNames["phyla"]
          ELSE IF level = "species" /\ "species" \in DOMAIN commonNames
               THEN commonNames["species"]
          ELSE NoCommonNames["all"])
    ELSE commonNames["all"]

displayReturned == last.op = "displayName"

hasEntry == last.name \in DOMAIN entryTable(last.level)

hasNamedEntry == hasEntry /\ TruthyName(entryTable(last.level)[last.name])

\* C20 (as stated): whenever a common-name entry exists for the name,
\* displayName answers "{commonName} ({scientificName})", for phylum as for
\* species and in every variant.  Entries with a blank common name are left
\* out of the statement.
C20_CommonThenScientific ==
    (displayReturned /\ hasNamedEntry)
        => last.text = withScientific(entryTable(last.level)[last.name], last.name)

\* C20 (amended): with an entry that has a non-blank common name, the tree
\* pages answer "{commonName} ({scientificName})" at every level, the detail
\* page answers that for a species and the common name alone for a phylum.
C20_DisplayNamePerVariant ==
    (displayReturned /\ hasNamedEntry)
        => last.text = IF variant = "detail" /\ last.level = "phylum"
                       THEN entryTable(last.level)[last.name]
                       ELSE withScientific(entryTable(last.level)[last.name], last.name)

\* A phylum with a common name has been resolved on a tree page and the
\* answer carries both names
C20_Witness ==
    /\ displayReturned
    /\ variant \in {"log", "linear"}
    /\ last.level = "phylum"
    /\ hasNamedEntry
    /\ last.text = withScientific(SeaStar, last.name)


\* The state a call of getDisplayName could touch: everything but the record
\* of the call itself
pageState == <<phase, variant, loaded, taxonomyData, expandedNodes, rendered, calls,
               svg, messages, commonNames>>

----------------------------------------------------------------------------
(* The detail page: phylum clicks (specification SpecDetail)               *)

\* Phylum "a" occurs under kingdom "a" and under kingdom "b"; names are
\* unique within a kingdom
DataSharedPhylum ==
    [kingdom |-> <<Row(nA, NoName, 5, 0), Row(nB, NoName, 4, 0)>>,
     phylum  |-> <<Row(nA, nA, 3, 0), Row(nB, nA, 2, 0),
                   Row(nA, nB, 3, 0), Row(nAB, nB, 1, 0)>>,
     class   |-> <<>>,
     order   |-> <<>>,
     family  |-> <<>>,
     genus   |-> <<>>,
     species |-> <<Row(nA, nA, 1, 0), Row(nB, nAB, 1, 0)>>]

\* Every non-empty phyla table over the records of DataSharedPhylum, in file
\* order: names stay unique within a kingdom
SharedPhylumSets ==
    {[DataSharedPhylum EXCEPT
         !.phylum = SelectSeq(DataSharedPhylum.phylum, LAMBDA p : <<p.name, p.parent>> \in S)] :
     S \in (SUBSET {<<DataSharedPhylum.phylum[i].name, DataSharedPhylum.phylum[i].parent>> :
                       i \in 1..Len(DataSharedPhylum.phylum)}) \ {{}}}

DetailSets == {DataTwoLineages, DataInconsistent} \cup SharedPhylumSets

\* togglePhylumDetails(phylum): expandedPhyla is a Set of phylum names; the
\* keys <<"phylum", name>> stand for its members (the value is not used)
togglePhylumDetails(expanded, phyla, phylum) ==
    LET key == Key("phylum", phylum.name)
        wasExpanded == key \in DOMAIN expanded
        siblings == {Key("phylum", phyla[i].name) :
                        i \in {n \in 1..Len(phyla) : phyla[n].parent = phylum.parent}}
        kept == IF wasExpanded THEN DOMAIN expanded \ {key}
                ELSE (DOMAIN expanded \ siblings) \cup {key}
    IN  [k \in kept |-> 1]

\* A click on segment j of the bar i of phyla
ClickPhylum(i, j) ==
    /\ phase = "ready"
    /\ variant = "detail"
    /\ rendered[i].level = "phylum"
    /\ \E expanded \in {togglePhylumDetails(expandedNodes, taxonomyData["phylum"],
                                            rendered[i].data[j])} :
           /\ expandedNodes' = expanded
           /\ rendered' = createVisualizationDetail(taxonomyData, expanded)
           /\ last' = [NoCall EXCEPT
                          !.op = "clickPhylum", !.level = "phylum",
                          !.name = rendered[i].data[j].name,
                          !.branch = IF Key("phylum", rendered[i].data[j].name)
                                            \in DOMAIN expandedNodes
                                     THEN "collapse" ELSE "expand",
                          !.had = Key("phylum", rendered[i].data[j].name)
                                      \in DOMAIN expandedNodes,
                          !.removed = DOMAIN expandedNodes \ DOMAIN expanded,
                          !.prevData = taxonomyData]
    /\ UNCHANGED <<phase, variant, loaded, taxonomyData, calls, svg, messages,
                   commonNames,
                   termColors, currentColorIndex>>

InitDetail == InitLoad /\ variant = "detail"

NextDetail ==
    \/ \E ds \in DetailSets : initDetail(ds)
    \/ \E i \in 1..Len(rendered) : \E j \in 1..Len(rendered[i].data) : ClickPhylum(i, j)
    \/ Resize

SpecDetail == InitDetail /\ [][NextDetail]_vars

----------------------------------------------------------------------------
(* The top-level bars (specification SpecLoad) *)

\* The occurrence counts of the kingdoms in the order they are drawn: the
\* segments of the root row on the tree pages, the bars on the detail page
kingdomBarCounts ==
    IF variant = "detail"
    THEN LET bars == SelectSeq(rendered, LAMBDA r : r.level = "phylum" /\ r.depth = 0)
         IN  [i \in 1..Len(bars) |-> bars[i].totalOccurrences]
    ELSE IF rendered # <<>> /\ rendered[1].level = "kingdom"
         THEN [i \in 1..Len(rendered[1].data) |-> rendered[1].data[i].occurrence_count]
         ELSE <<>>

\* C24: once the page is drawn, the top-level kingdom bars are in descending
\* order of occurrence_count, whatever the row order of the loaded kingdom
\* table.
C24_KingdomBarsDescending ==
    phase = "ready"
    => \A i, j \in 1..Len(kingdomBarCounts) :
           i < j => kingdomBarCounts[i] >= kingdomBarCounts[j]


----------------------------------------------------------------------------
(* Properties of the phylum clicks (specification SpecDetail) *)

\* The phylum records whose details are drawn, by position in the phyla
\* table: phyla.filter(p => expandedPhyla.has(p.phylum))
expandedRecords(data, expanded) ==
    {i \in 1..Len(data["phylum"]) :
        Key("phylum", data["phylum"][i].name) \in DOMAIN expanded}

namesUniqueWithinKingdom(phyla) ==
    \A i, j \in 1..Len(phyla) :
        (phyla[i].name = phyla[j].name /\ phyla[i].parent = phyla[j].parent) => i = j

\* C25: on the detail page, after any sequence of phylum clicks, at most one
\* phylum of a kingdom has its details expanded, for every phyla table whose
\* names are unique within a kingdom (a name may occur under two kingdoms).
C25_OneOpenPerKingdom ==
    (variant = "detail" /\ phase = "ready"
     /\ namesUniqueWithinKingdom(taxonomyData["phylum"]))
    => \A i, j \in expandedRecords(taxonomyData, expandedNodes) :
           taxonomyData["phylum"][i].parent = taxonomyData["phylum"][j].parent => i = j

\* the position in the phyla table of the record clicked in bar i, segment j
clickedRecord(i, j) ==
    CHOOSE n \in 1..Len(taxonomyData["phylum"]) :
        /\ taxonomyData["phylum"][n].name = rendered[i].data[j].name
        /\ taxonomyData["phylum"][n].parent = rendered[i].data[j].parent

\* C26: on the detail page a click on a phylum whose details are expanded
\* collapses exactly that phylum: it leaves the expanded set, and every other
\* expanded phylum stays expanded.
C26_CollapseExactlyClicked ==
    [][\A i \in 1..Len(rendered) : \A j \in 1..Len(rendered[i].data) :
           (/\ ClickPhylum(i, j)
            /\ namesUniqueWithinKingdom(taxonomyData["phylum"])
            /\ clickedRecord(i, j) \in expandedRecords(taxonomyData, expandedNodes))
           => expandedRecords(taxonomyData', expandedNodes')
                  = expandedRecords(taxonomyData, expandedNodes) \ {clickedRecord(i, j)}]_vars


----------------------------------------------------------------------------
(* The expansion path under clicks (specification Spec) *)

\* the levels that hold an expanded key
expandedLevels == {indexOf(k[1]) : k \in DOMAIN expandedNodes}

\* key k names a record of its level whose parent is the name of key p
childRecordOf(k, p) ==
    \E i \in 1..Len(taxonomyData[k[1]]) :
        /\ taxonomyData[k[1]][i].name = k[2]
        /\ parentField(taxonomyData[k[1]][i], p[1]) = p[2]

\* C27: while toggles come only from clicks on drawn segments, the expanded
\* keys form one path from the root: their levels are kingdom..k without a
\* gap, one key per level, and every key below kingdom is a child record of
\* the key one level above.
C27_ClicksKeepOnePath ==
    calls = 0
    => /\ \A k \in DOMAIN expandedNodes :
              /\ k[1] \in Levels
              /\ \A n \in 0..indexOf(k[1]) : n \in expandedLevels
              /\ \A q \in DOMAIN expandedNodes : q[1] = k[1] => q = k
       /\ \A k, p \in DOMAIN expandedNodes :
              p[1] = getPreviousLevel(k[1]) => childRecordOf(k, p)

\* C27 witness: clicks alone have expanded a kingdom, one of its phyla and one
\* of that phylum's classes
C27_Witness ==
    /\ calls = 0
    /\ last.op = "click"
    /\ expandedLevels = {0, 1, 2}
    /\ \A k, p \in DOMAIN expandedNodes :
           p[1] = getPreviousLevel(k[1]) => childRecordOf(k, p)


\* C28: a click on a segment of the species row, the synthesized "Other
\* species" included, leaves the expansion state unchanged and draws nothing
\* again; and while toggles come only from clicks, no species key is ever in
\* the expansion state.
C28_SpeciesClickIsInert ==
    [][/\ last'.op = "clickSpecies"
          => /\ expandedNodes' = expandedNodes
             /\ rendered' = rendered
             /\ taxonomyData' = taxonomyData
       /\ calls' = 0 => keysAt(expandedNodes', "species") = {}]_vars

\* C28 witness: the "Other species" segment of a drawn species row has been
\* clicked
C28_Witness ==
    /\ last.op = "clickSpecies"
    /\ last.name = OtherSpecies
    /\ calls = 0
    /\ \E i \in 1..Len(rendered) :
           /\ rendered[i].level = "species"
           /\ \E j \in 1..Len(rendered[i].data) : isResidual(rendered[i].data[j])


----------------------------------------------------------------------------
(* The resize handler (specification SpecLoad) *)

\* C29: a window resize is safe in every state: before init has finished
\* loading, or after a load failure, it raises no error and changes nothing
\* that is drawn; after a successful init it draws the tree again; it never
\* changes the expansion state.
C29_ResizeIsSafe ==
    [][last'.op = "resize"
          => /\ last'.result.status = "ok"
             /\ expandedNodes' = expandedNodes
             /\ phase # "ready" => rendered' = rendered]_vars


----------------------------------------------------------------------------
(* The colour cache (specification SpecColor)                              *)

\* Twelve terms, two more than the palette has colours
ColorTerms ==
    << <<"t01">>, <<"t02">>, <<"t03">>, <<"t04">>, <<"t05">>, <<"t06">>,
       <<"t07">>, <<"t08">>, <<"t09">>, <<"t10">>, <<"t11">>, <<"t12">> >>

\* The page after init has loaded empty files: nothing is drawn yet and no
\* colour has been handed out
InitColor ==
    /\ phase = "ready"
    /\ variant \in {"log", "linear"}
    /\ taxonomyData = EmptyTables
    /\ loaded = EmptyTables
    /\ expandedNodes = EmptyMap
    /\ rendered = <<>>
    /\ last = NoCall
    /\ calls = 0
    /\ svg = TRUE
    /\ messages = <<>>
    /\ commonNames = NoCommonNames
    /\ termColors = NoColors
    /\ currentColorIndex = 0

\* One call getTermColor(ColorTerms[n]), as the fill of a rectangle makes it.
\* getTermColor only tests terms for equality, so new terms are taken in the
\* order of ColorTerms: a term seen before, or the first one not yet seen.
GetTermColorCall(n) ==
    /\ phase = "ready"
    /\ \A m \in 1..(n - 1) : ColorTerms[m] \in DOMAIN termColors
    /\ \E g \in {getTermColor(termColors, currentColorIndex, ColorTerms[n])} :
           /\ termColors' = g.termColors
           /\ currentColorIndex' = g.currentColorIndex
           /\ last' = [NoCall EXCEPT !.op = "getTermColor", !.name = ColorTerms[n],
                                     !.count = g.color]
    /\ UNCHANGED <<phase, variant, loaded, taxonomyData, expandedNodes, rendered, calls,
                   svg, messages, commonNames>>

NextColor == \E n \in 1..Len(ColorTerms) : GetTermColorCall(n)

SpecColor == InitColor /\ [][NextColor]_vars

\* C30: a term keeps the colour it was given over every later step (call,
\* toggle or re-render), a call returns the colour the cache holds for its
\* term, and the palette index stays within 0..9, wrapping after the tenth
\* distinct term.
C30_TermColorsStable ==
    [][/\ \A t \in DOMAIN termColors :
              t \in DOMAIN termColors' /\ termColors'[t] = termColors[t]
       /\ \A t \in DOMAIN termColors' : termColors'[t] \in 0..(PaletteSize - 1)
       /\ currentColorIndex' \in 0..(PaletteSize - 1)
       /\ currentColorIndex' = Cardinality(DOMAIN termColors') % PaletteSize
       /\ last'.op = "getTermColor" => last'.count = termColors'[last'.name]]_vars

\* C30 witness: the eleventh distinct term has been given colour 0 again,
\* which the first term still holds, and the index stands at 1
C30_Witness ==
    /\ last.op = "getTermColor"
    /\ last.name = ColorTerms[PaletteSize + 1]
    /\ last.count = 0
    /\ termColors[ColorTerms[1]] = 0
    /\ Cardinality(DOMAIN termColors) = PaletteSize + 1
    /\ currentColorIndex = 1

====
